---- MODULE Spec2Model ----
(***************************************************************************)
(* Content lifecycle of jekyll_compose_modern.py (ModernJekyllGUI): slug   *)
(* derivation, item creation through the form, publish (draft -> post)     *)
(* and unpublish (post -> draft) over a small file tree.                   *)
(*                                                                         *)
(* A Python str is a sequence of one-character strings.                    *)
(***************************************************************************)
EXTENDS Integers, Sequences, FiniteSets, TLC

VARIABLES
    dirs,       \* the folders that exist under jekyll_root
    files,      \* function: <<folder, filename>> -> content, the files that exist
    pc,         \* "idle", or the position inside publish_draft / unpublish_post
    cur,        \* the operation in flight (publish/unpublish between write and unlink)
    last,       \* record of the last handler that ran: inputs, tree before, result
    nops,       \* number of handlers run so far
    sl_title,   \* slugify: the argument
    sl_slug,    \* slugify: slugify(sl_title) once computed
    sl_again,   \* slugify: slugify(sl_slug) once computed
    sl_phase,   \* slugify: 0 = not called, 1 = called once, 2 = called on its own result
    gc,         \* get_collections: the entries of jekyll_root and the list returned
    fr          \* find_jekyll_root: cwd, the folders holding _config.yml, loop position, result

vars == <<dirs, files, pc, cur, last, nops, sl_title, sl_slug, sl_again, sl_phase, gc, fr>>

----------------------------------------------------------------------------
(* Bounds *)

MaxTitleLen == 4
MaxOps == 2
MaxEntries == 3
MaxDepth == 2
MaxMarkers == 2

----------------------------------------------------------------------------
(* Characters and str methods *)

NL == "\n"
TAB == "\t"

UpperSeq == <<"A","B","C","D","E","F","G","H","I","J","K","L","M",
              "N","O","P","Q","R","S","T","U","V","W","X","Y","Z">>
LowerSeq == <<"a","b","c","d","e","f","g","h","i","j","k","l","m",
              "n","o","p","q","r","s","t","u","v","w","x","y","z">>
Digits == {"0","1","2","3","4","5","6","7","8","9"}

Range(s) == {s[i] : i \in 1..Len(s)}

\* \s of the re module
SpaceChars == {" ", TAB, NL}
IsSpace(c) == c \in SpaceChars

\* \w of the re module: letters, digits and the underscore
WordChars == Range(UpperSeq) \cup Range(LowerSeq) \cup Digits \cup {"_"}
IsWord(c) == c \in WordChars

\* str.lower(), one character
LowerMap == [c \in Range(UpperSeq) |-> LowerSeq[CHOOSE i \in 1..Len(UpperSeq) : UpperSeq[i] = c]]
CharLower(c) == IF c \in DOMAIN LowerMap THEN LowerMap[c] ELSE c

\* a slip: the title used without .lower()
StrLower_Missing(s) == s

\* str.lower()
StrLower(s) == [i \in 1..Len(s) |-> CharLower(s[i])]

\* s[i:] with a 1-based i
From(s, i) == SubSeq(s, i, Len(s))

\* s.startswith(p, i-1): p occurs in s at the 1-based position i
OccursAt(s, p, i) ==
    /\ i >= 1
    /\ i + Len(p) - 1 <= Len(s)
    /\ \A k \in 1..Len(p) : s[i + k - 1] = p[k]

\* p in s
Contains(s, p) == \E i \in 1..(Len(s) + 1) : OccursAt(s, p, i)

\* s.endswith(p)
EndsWith(s, p) == Len(p) <= Len(s) /\ OccursAt(s, p, Len(s) - Len(p) + 1)

\* s.lstrip(chars) / s.rstrip(chars) / s.strip(chars): chars is a set of characters
RECURSIVE LStrip(_, _)
LStrip(s, chars) ==
    IF s # <<>> /\ Head(s) \in chars THEN LStrip(Tail(s), chars) ELSE s

RECURSIVE RStrip(_, _)
RStrip(s, chars) ==
    IF s # <<>> /\ s[Len(s)] \in chars THEN RStrip(SubSeq(s, 1, Len(s) - 1), chars) ELSE s

Strip(s, chars) == RStrip(LStrip(s, chars), chars)

\* s.strip() with no argument: whitespace
StripSpace(s) == Strip(s, SpaceChars)

----------------------------------------------------------------------------
(* slugify *)

\* a slip: the class written [^a-z0-9\s-], which also deletes the underscore
SubRemove_NoUnderscore(s) ==
    SelectSeq(s, LAMBDA c : (IsWord(c) /\ c # "_") \/ IsSpace(c) \/ c = "-")

\* re.sub(r'[^\w\s-]', '', s): delete every character outside \w, \s and '-'
SubRemove(s) == SelectSeq(s, LAMBDA c : IsWord(c) \/ IsSpace(c) \/ c = "-")

\* re.sub(r'[-\s]+', '-', s): every maximal run of '-' and whitespace becomes one '-'
DashOrSpace == {"-"} \cup SpaceChars
RECURSIVE SubCollapse(_)
SubCollapse(s) ==
    IF s = <<>> THEN <<>>
    ELSE IF Head(s) \in DashOrSpace
         THEN <<"-">> \o SubCollapse(LStrip(s, DashOrSpace))
         ELSE <<Head(s)>> \o SubCollapse(Tail(s))

\* a plausible slip: the dashes are trimmed before the runs are collapsed
slugify_TrimFirst(title) == SubCollapse(Strip(SubRemove(StrLower(title)), {"-"}))

slugify(title) == Strip(SubCollapse(SubRemove(StrLower(title))), {"-"})

----------------------------------------------------------------------------
(* String constants of the program *)

MD == <<".", "m", "d">>                        \* ".md"
Fence == <<"-", "-", "-">>                     \* "---"
FenceNL == <<"-", "-", "-", NL>>               \* "---\n"
TitleKey == <<"t", "i", "t", "l", "e", ":">>   \* "title:"
DateKey == <<"d", "a", "t", "e", ":">>         \* "date:"
Quotes == {"\"", "'"}                          \* the argument of strip('"\'')

\* the folders the handlers use; "_recipes" stands for a collection folder
Folders == {"_posts", "_drafts", "_pages", "_recipes"}

\* datetime.now().strftime('%Y-%m-%d'): the values the clock takes here
Date1 == <<"2","0","2","4","-","0","3","-","0","1">>
Date2 == <<"2","0","2","4","-","0","1","-","0","5">>
Clock == {Date1}

----------------------------------------------------------------------------
(* Helpers of publish_draft and unpublish_post *)

\* index of the last character of the line that starts at i (i - 1 when that line is empty)
LineEnd(s, i) ==
    LET nls == {k \in i..Len(s) : s[k] = NL}
    IN  IF nls = {} THEN Len(s)
        ELSE (CHOOSE k \in nls : \A k2 \in nls : k <= k2) - 1

\* number of consecutive whitespace characters of s from position j on
RECURSIVE SpaceRun(_, _)
SpaceRun(s, j) ==
    IF j <= Len(s) /\ IsSpace(s[j]) THEN 1 + SpaceRun(s, j + 1) ELSE 0

\* re.search(r'^title:\s*(.+)$', content, re.MULTILINE) tried at position i:
\* the start of group 1, or 0 when the pattern does not match at i.
\* '^' is the start of the text or just after a newline; \s* is greedy and
\* backtracks, and it matches newlines; '.' matches anything but a newline.
GroupStartAt(s, i) ==
    IF ~ ((i = 1 \/ s[i - 1] = NL) /\ OccursAt(s, TitleKey, i)) THEN 0
    ELSE LET j == i + Len(TitleKey)
             cands == {g \in j..(j + SpaceRun(s, j)) : g <= Len(s) /\ s[g] # NL}
         IN  IF cands = {} THEN 0
             ELSE CHOOSE g \in cands : \A g2 \in cands : g2 <= g

\* the positions where the pattern matches
MatchStarts(s) == {i \in 1..Len(s) : GroupStartAt(s, i) # 0}

\* title_match is not None
HasTitleMatch(s) == MatchStarts(s) # {}

\* title_match.group(1) of the leftmost match
TitleGroup(s) ==
    LET i == CHOOSE k \in MatchStarts(s) : \A k2 \in MatchStarts(s) : k <= k2
        g == GroupStartAt(s, i)
    IN  SubSeq(s, g, LineEnd(s, g))

\* Path.stem: the name without its last suffix; a leading or a trailing dot is no suffix
Stem(name) ==
    LET dots == {k \in 1..Len(name) : name[k] = "."}
        i == IF dots = {} THEN 0 ELSE CHOOSE k \in dots : \A k2 \in dots : k2 <= k
    IN  IF i > 1 /\ i < Len(name) THEN SubSeq(name, 1, i - 1) ELSE name

\* a slip: group(0), the whole match, taken for group(1)
RecoverTitle_WholeMatch(content, name) ==
    IF HasTitleMatch(content)
    THEN Strip(StripSpace(TitleKey \o <<" ">> \o TitleGroup(content)), Quotes)
    ELSE Stem(name)

\* title_match.group(1).strip().strip('"\'') if title_match else draft_file.stem
RecoverTitle(content, name) ==
    IF HasTitleMatch(content)
    THEN Strip(StripSpace(TitleGroup(content)), Quotes)
    ELSE Stem(name)

\* s.replace(old, new, 1)
ReplaceFirst(s, old, new) ==
    LET occ == {i \in 1..Len(s) : OccursAt(s, old, i)}
    IN  IF occ = {} THEN s
        ELSE LET i == CHOOSE k \in occ : \A k2 \in occ : k <= k2
             IN  SubSeq(s, 1, i - 1) \o new \o From(s, i + Len(old))

\* f'---\ndate: {date}\n'
FenceWithDate(date) == FenceNL \o DateKey \o <<" ">> \o date \o <<NL>>

\* the content publish_draft writes
PublishContent(content, date) ==
    IF ~ Contains(content, DateKey)
    THEN ReplaceFirst(content, FenceNL, FenceWithDate(date))
    ELSE content

\* f"{date}-{slug}.md"
DatedName(date, slug) == date \o <<"-">> \o slug \o MD

\* the file name publish_draft writes under _posts
PublishName(content, name, date) == DatedName(date, slugify(RecoverTitle(content, name)))

\* s.split(sep, maxsplit): sep is one character
RECURSIVE Split(_, _, _)
Split(s, sep, maxsplit) ==
    LET seps == {i \in 1..Len(s) : s[i] = sep}
    IN  IF maxsplit = 0 \/ seps = {} THEN <<s>>
        ELSE LET i == CHOOSE k \in seps : \A k2 \in seps : k <= k2
             IN  <<SubSeq(s, 1, i - 1)>> \o Split(From(s, i + 1), sep, maxsplit - 1)

\* a slip: split('-', 2), which leaves the day in front of the name
UnpublishName_Split2(name) ==
    LET name_parts == Split(name, "-", 2)
    IN  IF Len(name_parts) >= 3 THEN name_parts[3] ELSE name

\* name_parts[3] if len(name_parts) >= 4 else post_file.name
UnpublishName(name) ==
    LET name_parts == Split(name, "-", 3)
    IN  IF Len(name_parts) >= 4 THEN name_parts[4] ELSE name

\* folder_path.glob("*.md"): the names of the .md files of a folder
Glob(fs, folder) == {p[2] : p \in {q \in DOMAIN fs : q[1] = folder /\ EndsWith(q[2], MD)}}

\* the tree without the file at path p
Unlink(fs, p) == [q \in (DOMAIN fs) \ {p} |-> fs[q]]

\* the tree after write_text(content) at path p
WriteText(fs, p, content) == [q \in (DOMAIN fs) \cup {p} |-> IF q = p THEN content ELSE fs[q]]

\* a slip: the date line written whether or not a date was given
FrontMatter_AlwaysDate(title, date) ==
    FenceNL \o TitleKey \o <<" ">> \o title \o <<NL>>
        \o DateKey \o <<" ">> \o date \o <<NL>>
        \o FenceNL \o <<NL>>

\* the front matter create_file writes
FrontMatter(title, date) ==
    FenceNL \o TitleKey \o <<" ">> \o title \o <<NL>>
        \o (IF date # <<>> THEN DateKey \o <<" ">> \o date \o <<NL>> ELSE <<>>)
        \o FenceNL \o <<NL>>

\* f"{date}-{slug}.md" if date else f"{slug}.md"
CreateName(title, date) ==
    IF date # <<>> THEN DatedName(date, slugify(title)) ELSE slugify(title) \o MD

----------------------------------------------------------------------------
(* Inputs: the trees the program may be started on and what the user types *)

EmptyTree == [q \in {} |-> <<>>]

\* drafts found in _drafts at start: <<filename, content>>
Draft_Plain == <<<<"m", "y", "-", "d", "r", "a", "f", "t", ".", "m", "d">>,
                 <<"-", "-", "-", NL, "t", "i", "t", "l", "e", ":", " ", "M", "y", " ", "D", "r", "a", "f", "t", NL, "-", "-", "-", NL, NL>>>>
Draft_Quoted == <<<<"m", "y", "-", "d", "r", "a", "f", "t", ".", "m", "d">>,
                  <<"-", "-", "-", NL, "t", "i", "t", "l", "e", ":", " ", " ", "\"", "M", "y", " ", "D", "r", "a", "f", "t", "\"", " ", NL, "d", "a", "t", "e", ":", " ", "2", "0", "2", "4", "-", "0", "1", "-", "0", "5", NL, "-", "-", "-", NL, NL>>>>
Draft_EmptyTitle == <<<<"m", "y", "-", "d", "r", "a", "f", "t", ".", "m", "d">>,
                      <<"-", "-", "-", NL, "t", "i", "t", "l", "e", ":", NL, "d", "a", "t", "e", ":", " ", "2", "0", "2", "4", "-", "0", "1", "-", "0", "5", NL, "-", "-", "-", NL, NL>>>>
Draft_NoTitle == <<<<"O", "l", "d", " ", "N", "o", "t", "e", ".", "m", "d">>,
                   <<"-", "-", "-", NL, "l", "a", "y", "o", "u", "t", ":", " ", "x", NL, "-", "-", "-", NL, NL>>>>
Draft_Update == <<<<"m", "y", "-", "d", "r", "a", "f", "t", ".", "m", "d">>,
                  <<"-", "-", "-", NL, "t", "i", "t", "l", "e", ":", " ", "a", NL, "u", "p", "d", "a", "t", "e", ":", " ", "1", NL, "-", "-", "-", NL, NL>>>>
Draft_NoFrontMatter == <<<<"m", "y", "-", "d", "r", "a", "f", "t", ".", "m", "d">>,
                         <<"h", "e", "l", "l", "o", NL>>>>
Draft_Rule == <<<<"m", "y", "-", "d", "r", "a", "f", "t", ".", "m", "d">>,
                <<"i", "n", "t", "r", "o", NL, "-", "-", "-", NL, "m", "o", "r", "e", NL>>>>
InitDrafts == {Draft_Plain, Draft_Quoted, Draft_EmptyTitle, Draft_NoTitle,
               Draft_Update, Draft_NoFrontMatter, Draft_Rule}

\* posts found in _posts at start: <<filename, content>>
Post_Dated == <<<<"2", "0", "2", "4", "-", "0", "3", "-", "0", "1", "-", "m", "y", "-", "d", "r", "a", "f", "t", ".", "m", "d">>,
                <<"-", "-", "-", NL, "t", "i", "t", "l", "e", ":", " ", "M", "y", " ", "D", "r", "a", "f", "t", NL, "d", "a", "t", "e", ":", " ", "2", "0", "2", "4", "-", "0", "3", "-", "0", "1", NL, "-", "-", "-", NL, NL, "x">>>>
Post_Undated == <<<<"a", "-", "b", ".", "m", "d">>,
                  <<"-", "-", "-", NL, "t", "i", "t", "l", "e", ":", " ", "a", NL, "-", "-", "-", NL, NL>>>>
InitPosts == {Post_Dated, Post_Undated}

\* what the user types in the Title field
RawTitles == {<<>>, <<" ", TAB>>, <<" ", "'", "H", "i", "'", " ">>,
              <<"M", "y", " ", "D", "r", "a", "f", "t">>, <<"?", "!">>}

\* what the user leaves in the Date field of the post form
RawDates == {<<>>, Date2}

\* what the user picks in the Collection combo box
RawCollections == {"", "recipes"}

Kinds == {"post", "draft", "page", "collection"}

\* the titles slugify is applied to in SlugSpec
TitleChars == {"a", "B", "1", "_", " ", "-", "!"}
MyFirstPost == <<"M", "y", " ", "F", "i", "r", "s", "t", " ", "P", "o", "s", "t", "!">>
RECURSIVE StringsUpTo(_)
StringsUpTo(n) ==
    IF n = 0 THEN {<<>>}
    ELSE LET shorter == StringsUpTo(n - 1)
         IN  shorter \cup {Append(s, c) : s \in {t \in shorter : Len(t) = n - 1}, c \in TitleChars}
Titles == StringsUpTo(MaxTitleLen) \cup {MyFirstPost}

----------------------------------------------------------------------------
(* State *)

NoPath == <<"", <<>>>>

\* get_collections not called, find_jekyll_root not called
NoCollections == [entries |-> {}, called |-> FALSE, ret |-> <<>>]
NoFind == [cwd |-> <<>>, markers |-> {}, pc |-> "idle", i |-> 0, ret |-> <<>>]

NoLast ==
    [op |-> "none", kind |-> "", folder |-> "", name |-> <<>>, raw_title |-> <<>>,
     title |-> <<>>,
     date |-> <<>>, asked |-> FALSE, confirm |-> FALSE, ret |-> "", path |-> NoPath,
     content |-> <<>>, pre_files |-> EmptyTree, pre_dirs |-> {}]

NoCur == [src |-> NoPath, dst |-> NoPath, content |-> <<>>, date |-> <<>>,
          pre_files |-> EmptyTree, pre_dirs |-> {}]

\* the tree that holds the given sets of <<filename, content>> drafts and posts
TreeOf(drafts, posts) ==
    [q \in {<<"_drafts", d[1]>> : d \in drafts} \cup {<<"_posts", d[1]>> : d \in posts} |->
        IF q[1] = "_drafts"
        THEN (CHOOSE d \in drafts : d[1] = q[2])[2]
        ELSE (CHOOSE d \in posts : d[1] = q[2])[2]]

\* the folders of the files of a tree
FoldersOf(fs) == {q[1] : q \in DOMAIN fs}

Init ==
    /\ \E drafts \in {{}} \cup {{d} : d \in InitDrafts},
          posts \in {{}} \cup {{d} : d \in InitPosts} :
            /\ files = TreeOf(drafts, posts)
            /\ dirs = FoldersOf(TreeOf(drafts, posts))
    /\ pc = "idle"
    /\ cur = NoCur
    /\ last = NoLast
    /\ nops = 0
    /\ sl_title = <<>>
    /\ sl_slug = <<>>
    /\ sl_again = <<>>
    /\ sl_phase = 0
    /\ gc = NoCollections
    /\ fr = NoFind

----------------------------------------------------------------------------
(* Creation: handle_form_submit, the _create_* callbacks and create_file *)

\* a slip: the field value taken without .strip()
FormValue_NoStrip(raw) == raw

\* var.get().strip() of handle_form_submit
FormValue(raw) == StripSpace(raw)

\* the folder each callback passes to create_file
FolderOf(kind, coll) ==
    CASE kind = "post" -> "_posts"
      [] kind = "draft" -> "_drafts"
      [] kind = "page" -> "_pages"
      [] kind = "collection" -> "_" \o coll

\* the date each callback passes to create_file: values['Date'] or today for a post, else None
DateOf(kind, date_field, today) ==
    IF kind = "post" THEN (IF date_field # <<>> THEN date_field ELSE today) ELSE <<>>

\* a slip: the file written whatever askyesno answered
create_file_NoAsk(ds, fs, folder, title, date, confirm) ==
    LET file_path == <<folder, CreateName(title, date)>>
    IN  [dirs |-> ds \cup {folder},
         files |-> WriteText(fs, file_path, FrontMatter(title, date)),
         ret |-> "path", asked |-> file_path \in DOMAIN fs, path |-> file_path]

\* create_file(folder, title, date) on the tree (ds, fs); confirm is the answer askyesno
\* gives when it is asked. The result: the new tree, the returned value, whether the
\* question was asked, the target path.
create_file(ds, fs, folder, title, date, confirm) ==
    LET folder_dirs == ds \cup {folder}
        file_path == <<folder, CreateName(title, date)>>
        exists == file_path \in DOMAIN fs
    IN  IF exists /\ ~ confirm
        THEN [dirs |-> folder_dirs, files |-> fs, ret |-> "none",
              asked |-> TRUE, path |-> file_path]
        ELSE [dirs |-> folder_dirs,
              files |-> WriteText(fs, file_path, FrontMatter(title, date)),
              ret |-> "path", asked |-> exists, path |-> file_path]

\* the Create button of a form: kind names the form, raw_title, raw_date and coll are
\* the field values, today the clock, confirm the answer to "Overwrite?" if it is asked
FormSubmit(kind, raw_title, raw_date, coll, today, confirm) ==
    /\ pc = "idle"
    /\ nops < MaxOps
    /\ kind = "post" \/ raw_date = <<>>
    /\ kind = "collection" \/ coll = ""
    /\ LET title == FormValue(raw_title)
           date == DateOf(kind, FormValue(raw_date), today)
           base == [NoLast EXCEPT !.op = "create", !.kind = kind,
                                  !.raw_title = raw_title, !.title = title,
                                  !.date = date, !.pre_files = files, !.pre_dirs = dirs]
       IN  IF title = <<>>
           THEN \* "Title is required"
                /\ confirm
                /\ last' = [base EXCEPT !.ret = "validation_error"]
                /\ UNCHANGED <<dirs, files>>
           ELSE IF kind = "collection" /\ coll = ""
           THEN \* "Please select a collection"
                /\ confirm
                /\ last' = [base EXCEPT !.ret = "no_collection"]
                /\ UNCHANGED <<dirs, files>>
           ELSE LET folder == FolderOf(kind, coll)
                    r == create_file(dirs, files, folder, title, date, confirm)
                IN  /\ r.asked \/ confirm
                    /\ dirs' = r.dirs
                    /\ files' = r.files
                    /\ last' = [base EXCEPT !.folder = folder, !.name = r.path[2],
                                            !.asked = r.asked, !.confirm = confirm,
                                            !.ret = r.ret, !.path = r.path]
    /\ nops' = nops + 1
    /\ UNCHANGED <<pc, cur, sl_title, sl_slug, sl_again, sl_phase, gc, fr>>

----------------------------------------------------------------------------
(* publish_draft *)

\* a slip: the draft removed first, the post left to the second step
PublishWrite_UnlinkFirst(name, date) ==
    /\ pc = "idle"
    /\ nops < MaxOps
    /\ "_drafts" \in dirs
    /\ name \in Glob(files, "_drafts")
    /\ LET draft_file == <<"_drafts", name>>
           content == files[draft_file]
           post_path == <<"_posts", PublishName(content, name, date)>>
       IN  /\ dirs' = dirs \cup {"_posts"}
           /\ files' = Unlink(files, draft_file)
           /\ cur' = [src |-> draft_file, dst |-> post_path, content |-> content,
                      date |-> date, pre_files |-> files, pre_dirs |-> dirs]
    /\ pc' = "publish_unlink"
    /\ nops' = nops + 1
    /\ UNCHANGED <<last, sl_title, sl_slug, sl_again, sl_phase, gc, fr>>

\* the dialog returned the draft `name`; the post is written (lines 594-610)
PublishWrite(name, date) ==
    /\ pc = "idle"
    /\ nops < MaxOps
    /\ "_drafts" \in dirs
    /\ name \in Glob(files, "_drafts")
    /\ LET draft_file == <<"_drafts", name>>
           content == files[draft_file]
           post_path == <<"_posts", PublishName(content, name, date)>>
       IN  /\ dirs' = dirs \cup {"_posts"}
           /\ files' = WriteText(files, post_path, PublishContent(content, date))
           /\ cur' = [src |-> draft_file, dst |-> post_path, content |-> content,
                      date |-> date, pre_files |-> files, pre_dirs |-> dirs]
    /\ pc' = "publish_unlink"
    /\ nops' = nops + 1
    /\ UNCHANGED <<last, sl_title, sl_slug, sl_again, sl_phase, gc, fr>>

\* draft_file.unlink() (line 611)
PublishUnlink ==
    /\ pc = "publish_unlink"
    /\ files' = Unlink(files, cur.src)
    /\ last' = [NoLast EXCEPT !.op = "publish", !.folder = "_drafts", !.name = cur.src[2],
                              !.date = cur.date, !.ret = "moved", !.path = cur.dst,
                              !.content = cur.content, !.pre_files = cur.pre_files,
                              !.pre_dirs = cur.pre_dirs]
    /\ cur' = NoCur
    /\ pc' = "idle"
    /\ UNCHANGED <<dirs, nops, sl_title, sl_slug, sl_again, sl_phase, gc, fr>>

----------------------------------------------------------------------------
(* unpublish_post *)

\* the dialog returned the post `name`; the draft is written (lines 631-641)
UnpublishWrite(name) ==
    /\ pc = "idle"
    /\ nops < MaxOps
    /\ "_posts" \in dirs
    /\ name \in Glob(files, "_posts")
    /\ LET post_file == <<"_posts", name>>
           draft_path == <<"_drafts", UnpublishName(name)>>
       IN  /\ dirs' = dirs \cup {"_drafts"}
           /\ files' = WriteText(files, draft_path, files[post_file])
           /\ cur' = [src |-> post_file, dst |-> draft_path, content |-> files[post_file],
                      date |-> <<>>, pre_files |-> files, pre_dirs |-> dirs]
    /\ pc' = "unpublish_unlink"
    /\ nops' = nops + 1
    /\ UNCHANGED <<last, sl_title, sl_slug, sl_again, sl_phase, gc, fr>>

\* post_file.unlink() (line 642)
UnpublishUnlink ==
    /\ pc = "unpublish_unlink"
    /\ files' = Unlink(files, cur.src)
    /\ last' = [NoLast EXCEPT !.op = "unpublish", !.folder = "_posts", !.name = cur.src[2],
                              !.ret = "moved", !.path = cur.dst, !.content = cur.content,
                              !.pre_files = cur.pre_files, !.pre_dirs = cur.pre_dirs]
    /\ cur' = NoCur
    /\ pc' = "idle"
    /\ UNCHANGED <<dirs, nops, sl_title, sl_slug, sl_again, sl_phase, gc, fr>>

----------------------------------------------------------------------------
(* The program *)

Next ==
    \/ \E kind \in Kinds, raw_title \in RawTitles, raw_date \in RawDates,
          coll \in RawCollections, today \in Clock, confirm \in BOOLEAN :
            FormSubmit(kind, raw_title, raw_date, coll, today, confirm)
    \/ \E name \in Glob(files, "_drafts"), date \in Clock : PublishWrite(name, date)
    \/ PublishUnlink
    \/ \E name \in Glob(files, "_posts") : UnpublishWrite(name)
    \/ UnpublishUnlink

Spec == Init /\ [][Next]_vars

----------------------------------------------------------------------------
(* slugify on its own: every title up to MaxTitleLen characters *)

InitSlug ==
    /\ files = EmptyTree
    /\ dirs = {}
    /\ pc = "idle"
    /\ cur = NoCur
    /\ last = NoLast
    /\ nops = 0
    /\ sl_title \in Titles
    /\ sl_slug = <<>>
    /\ sl_again = <<>>
    /\ sl_phase = 0
    /\ gc = NoCollections
    /\ fr = NoFind

\* slug = self.slugify(title)
Slugify ==
    /\ sl_phase = 0
    /\ sl_slug' = slugify(sl_title)
    /\ sl_phase' = 1
    /\ UNCHANGED <<dirs, files, pc, cur, last, nops, sl_title, sl_again, gc, fr>>

\* self.slugify(slug): slugify applied to its own result
SlugifyAgain ==
    /\ sl_phase = 1
    /\ sl_again' = slugify(sl_slug)
    /\ sl_phase' = 2
    /\ UNCHANGED <<dirs, files, pc, cur, last, nops, sl_title, sl_slug, gc, fr>>

NextSlug == Slugify \/ SlugifyAgain

SlugSpec == InitSlug /\ [][NextSlug]_vars

----------------------------------------------------------------------------
(* get_collections on its own: every listing of jekyll_root of up to MaxEntries entries *)

\* the characters of the names in code point order, as sorted() compares them
DigitSeq == <<"0","1","2","3","4","5","6","7","8","9">>
CodeOrder == <<"-", ".">> \o DigitSeq \o UpperSeq \o <<"_">> \o LowerSeq
Ord(c) == CHOOSE k \in 1..Len(CodeOrder) : CodeOrder[k] = c

\* a < b for two str
StrLess(a, b) ==
    \E k \in 1..(Len(b)) :
        /\ \A j \in 1..(k - 1) : j <= Len(a) /\ a[j] = b[j]
        /\ (k = Len(a) + 1 \/ (k <= Len(a) /\ Ord(a[k]) < Ord(b[k])))

\* sorted(set): the elements of a set of str in ascending order
RECURSIVE Sorted(_)
Sorted(S) ==
    IF S = {} THEN <<>>
    ELSE LET m == CHOOSE x \in S : \A y \in S : x = y \/ StrLess(x, y)
         IN  <<m>> \o Sorted(S \ {m})

\* ['posts', 'drafts', 'pages']
DefaultCollections == {<<"p", "o", "s", "t", "s">>, <<"d", "r", "a", "f", "t", "s">>, <<"p", "a", "g", "e", "s">>}

\* ['_site', '_sass', '_layouts', '_includes', '_data']
ReservedFolders == {<<"_", "s", "i", "t", "e">>, <<"_", "s", "a", "s", "s">>, <<"_", "l", "a", "y", "o", "u", "t", "s">>,
                    <<"_", "i", "n", "c", "l", "u", "d", "e", "s">>, <<"_", "d", "a", "t", "a">>}

\* a slip: the is_dir() test left out
get_collections_AnyEntry(entries) ==
    Sorted(DefaultCollections \cup
           {Tail(item.name) : item \in {e \in entries :
                /\ OccursAt(e.name, <<"_">>, 1)
                /\ e.name \notin ReservedFolders}})

\* get_collections() when iterdir() yields `entries`, each [name, is_dir]
get_collections(entries) ==
    Sorted(DefaultCollections \cup
           {Tail(item.name) : item \in {e \in entries :
                /\ e.is_dir
                /\ OccursAt(e.name, <<"_">>, 1)
                /\ e.name \notin ReservedFolders}})

\* the names found under jekyll_root in these listings
EntryNames == {<<"_", "p", "o", "s", "t", "s">>, <<"_", "r", "e", "c", "i", "p", "e", "s">>,
               <<"_", "s", "i", "t", "e">>, <<"_", "s", "a", "s", "s">>, <<"_", "l", "a", "y", "o", "u", "t", "s">>,
               <<"_", "i", "n", "c", "l", "u", "d", "e", "s">>, <<"_", "d", "a", "t", "a">>,
               <<"a", "s", "s", "e", "t", "s">>, <<"_", "n", "o", "t", "e", "s">>, <<"_">>}

\* the listings: at most MaxEntries names, each a folder or a plain file
Listings ==
    UNION {[names -> BOOLEAN] : names \in {N \in SUBSET EntryNames : Cardinality(N) <= MaxEntries}}

InitCollections ==
    /\ files = EmptyTree
    /\ dirs = {}
    /\ pc = "idle"
    /\ cur = NoCur
    /\ last = NoLast
    /\ nops = 0
    /\ sl_title = <<>>
    /\ sl_slug = <<>>
    /\ sl_again = <<>>
    /\ sl_phase = 0
    /\ fr = NoFind
    /\ \E listing \in Listings :
            gc = [NoCollections EXCEPT
                    !.entries = {[name |-> n, is_dir |-> listing[n]] : n \in DOMAIN listing}]

\* collections = self.get_collections()
GetCollections ==
    /\ ~ gc.called
    /\ gc' = [gc EXCEPT !.called = TRUE, !.ret = get_collections(gc.entries)]
    /\ UNCHANGED <<dirs, files, pc, cur, last, nops, sl_title, sl_slug, sl_again, sl_phase, fr>>

NextCollections == GetCollections

CollectionsSpec == InitCollections /\ [][NextCollections]_vars

----------------------------------------------------------------------------
(* find_jekyll_root on its own. A folder is the sequence of the names that lead to *)
(* it from the filesystem root, <<>> being the filesystem root itself.             *)

DirNames == {"a", "b"}

\* the folders up to MaxDepth levels below the filesystem root
RECURSIVE PathsUpTo(_)
PathsUpTo(n) ==
    IF n = 0 THEN {<<>>}
    ELSE LET shorter == PathsUpTo(n - 1)
         IN  shorter \cup {Append(q, d) : q \in {t \in shorter : Len(t) = n - 1}, d \in DirNames}
AllDirs == PathsUpTo(MaxDepth)

\* a slip: the ancestors walked from the filesystem root downward
Candidates_RootFirst(current) == [k \in 1..(Len(current) + 1) |-> SubSeq(current, 1, k - 1)]

\* [current] + list(current.parents): the folder itself, then its ancestors, nearest first
Candidates(current) ==
    [k \in 1..(Len(current) + 1) |-> SubSeq(current, 1, Len(current) + 1 - k)]

InitFind ==
    /\ files = EmptyTree
    /\ dirs = {}
    /\ pc = "idle"
    /\ cur = NoCur
    /\ last = NoLast
    /\ nops = 0
    /\ sl_title = <<>>
    /\ sl_slug = <<>>
    /\ sl_again = <<>>
    /\ sl_phase = 0
    /\ gc = NoCollections
    /\ \E current \in AllDirs,
          markers \in {M \in SUBSET AllDirs : Cardinality(M) <= MaxMarkers} :
            fr = [cwd |-> current, markers |-> markers, pc |-> "loop", i |-> 1, ret |-> <<>>]

\* one turn of the for loop: (path / '_config.yml').exists() and return, or go on
FindRootTest ==
    /\ fr.pc = "loop"
    /\ fr.i <= Len(Candidates(fr.cwd))
    /\ IF Candidates(fr.cwd)[fr.i] \in fr.markers
       THEN fr' = [fr EXCEPT !.pc = "done", !.ret = Candidates(fr.cwd)[fr.i]]
       ELSE fr' = [fr EXCEPT !.i = fr.i + 1]
    /\ UNCHANGED <<dirs, files, pc, cur, last, nops, sl_title, sl_slug, sl_again, sl_phase, gc>>

\* the list is exhausted: return str(current)
FindRootDefault ==
    /\ fr.pc = "loop"
    /\ fr.i > Len(Candidates(fr.cwd))
    /\ fr' = [fr EXCEPT !.pc = "done", !.ret = fr.cwd]
    /\ UNCHANGED <<dirs, files, pc, cur, last, nops, sl_title, sl_slug, sl_again, sl_phase, gc>>

NextFind == FindRootTest \/ FindRootDefault

\* the loop runs in one thread with nothing to wait for: it keeps taking its next step
FindSpec == InitFind /\ [][NextFind]_vars /\ WF_vars(NextFind)

----------------------------------------------------------------------------
(* Properties *)

\* the lines of a text
Lines(s) == Split(s, NL, Len(s))

\* the least element of a non-empty set of numbers
Min(S) == CHOOSE k \in S : \A k2 \in S : k <= k2

\* a handler has just returned: `last` describes it and `files` is the tree it left
Returned(op) == pc = "idle" /\ last.op = op

\* the lines of the form "title:<value>" with a value of at least one character
C1_TitleLines(content) ==
    {i \in 1..Len(Lines(content)) :
        /\ OccursAt(Lines(content)[i], TitleKey, 1)
        /\ Len(Lines(content)[i]) > Len(TitleKey)}

\* the title named by the draft: the value of its first title line, trimmed and
\* unquoted, else the file name without ".md"
C1_Title(content, name) ==
    IF C1_TitleLines(content) = {}
    THEN SubSeq(name, 1, Len(name) - Len(MD))
    ELSE Strip(StripSpace(From(Lines(content)[Min(C1_TitleLines(content))],
                               Len(TitleKey) + 1)), Quotes)

\* C1: publishing a draft D writes _posts/{today}-{slugify(title)}.md, title being the
\* value of D's title line (trimmed, quotes stripped) or else D's name without its
\* extension; afterwards the draft is gone and the post exists.
C1_PublishTarget ==
    Returned("publish") =>
        LET target == <<"_posts", last.date \o <<"-">>
                            \o slugify(C1_Title(last.content, last.name)) \o MD>>
        IN  /\ last.path = target
            /\ target \in DOMAIN files
            /\ <<"_drafts", last.name>> \notin DOMAIN files

\* the lines between the opening "---" line and the next "---" line; none when the
\* text does not open with a "---" line
C2_FrontMatter(content) ==
    LET ls == Lines(content)
        closers == {i \in 2..Len(ls) : ls[i] = Fence}
    IN  IF ls[1] # Fence THEN <<>>
        ELSE SubSeq(ls, 2, (IF closers = {} THEN Len(ls) + 1 ELSE Min(closers)) - 1)

\* C2: after publish, whatever the draft held, the front matter of the post written
\* under _posts has a date key.
C2_PostHasDate ==
    Returned("publish") =>
        \E i \in 1..Len(C2_FrontMatter(files[last.path])) :
            OccursAt(C2_FrontMatter(files[last.path])[i], DateKey, 1)

\* C3: publish edits the content of a draft that opens with a "---" line in one way
\* only: with no date key on any line, the line "date: {today}" is inserted right
\* after the opening line; with a date key, the post holds the draft's content as is.
C3_PublishEdit ==
    (Returned("publish") /\ OccursAt(last.content, FenceNL, 1)) =>
        IF \E i \in 1..Len(Lines(last.content)) : OccursAt(Lines(last.content)[i], DateKey, 1)
        THEN files[last.path] = last.content
        ELSE files[last.path] =
                FenceNL \o DateKey \o <<" ">> \o last.date \o <<NL>>
                    \o From(last.content, Len(FenceNL) + 1)

\* the positions of the dashes of a name
C4_Dashes(name) == {i \in 1..Len(name) : name[i] = "-"}

\* what follows the third dash of a name with three dashes or more, else the name
C4_NewName(name) ==
    IF Cardinality(C4_Dashes(name)) >= 3
    THEN From(name, 1 + Min({i \in C4_Dashes(name) :
                                Cardinality({k \in C4_Dashes(name) : k < i}) = 2}))
    ELSE name

\* C4: unpublishing a post P drops the first three of the at most four dash-separated
\* parts of P's name when there are four, else keeps the name; the content is written
\* as is to _drafts/<new name>, _drafts being created if absent, and afterwards the
\* post is gone and the draft holds the post's content.
C4_Unpublish ==
    Returned("unpublish") =>
        /\ last.path = <<"_drafts", C4_NewName(last.name)>>
        /\ "_drafts" \in dirs
        /\ last.path \in DOMAIN files
        /\ files[last.path] = last.pre_files[<<"_posts", last.name>>]
        /\ <<"_posts", last.name>> \notin DOMAIN files

C4_Witness ==
    /\ Returned("unpublish")
    /\ last.name = Post_Dated[1]
    /\ "_drafts" \notin last.pre_dirs
    /\ last.path = <<"_drafts", Draft_Plain[1]>>

\* C5: a create that is not declined leaves exactly one file written and every other
\* file as it was: folder/{date}-{slug}.md with a date, folder/{slug}.md without, the
\* folder created if absent; its content is "---", "title: {title}", "date: {date}"
\* only with a date, "---", an empty line and no body.
C5_Create ==
    (Returned("create") /\ last.ret = "path") =>
        LET slug == slugify(last.title)
            name == IF last.date # <<>> THEN last.date \o <<"-">> \o slug \o MD
                    ELSE slug \o MD
            target == <<last.folder, name>>
            dateline == IF last.date # <<>> THEN DateKey \o <<" ">> \o last.date \o <<NL>>
                        ELSE <<>>
        IN  /\ last.path = target
            /\ dirs = last.pre_dirs \cup {last.folder}
            /\ DOMAIN files = DOMAIN last.pre_files \cup {target}
            /\ \A q \in DOMAIN last.pre_files : q # target => files[q] = last.pre_files[q]
            /\ files[target] = Fence \o <<NL>> \o TitleKey \o <<" ">> \o last.title \o <<NL>>
                                \o dateline \o Fence \o <<NL>> \o <<NL>>

C5_Witness ==
    /\ Returned("create")
    /\ last.ret = "path"
    /\ last.date # <<>>
    /\ last.folder \notin last.pre_dirs
    /\ last.path \in DOMAIN files

\* C6: create overwrites an existing target only when the confirmation was asked and
\* answered yes; when it is declined nothing is returned and the tree is as before:
\* no file changed, no file and no folder created.
C6_NoOverwrite ==
    Returned("create") =>
        /\ (last.ret = "path" /\ last.path \in DOMAIN last.pre_files)
                => (last.asked /\ last.confirm)
        /\ \A q \in DOMAIN last.pre_files :
                /\ q \in DOMAIN files
                /\ files[q] # last.pre_files[q] => (q = last.path /\ last.asked /\ last.confirm)
        /\ (last.asked /\ ~ last.confirm)
                => (last.ret = "none" /\ files = last.pre_files /\ dirs = last.pre_dirs)

C6_Witness ==
    /\ Returned("create")
    /\ last.asked
    /\ ~ last.confirm
    /\ last.path \in DOMAIN files
    /\ files[last.path] # FrontMatter(last.title, last.date)

\* C7: a create with an empty or whitespace-only title ends in the validation warning
\* and writes nothing: no folder and no file is created or changed.
C7_EmptyTitle ==
    (Returned("create") /\ \A i \in 1..Len(last.raw_title) : IsSpace(last.raw_title[i])) =>
        /\ last.ret = "validation_error"
        /\ files = last.pre_files
        /\ dirs = last.pre_dirs

C7_Witness ==
    /\ Returned("create")
    /\ last.raw_title = <<" ", TAB>>
    /\ last.ret = "validation_error"

\* C8: create rejects a title whose slug is empty: it never writes a file named ".md"
\* or "{date}-.md".
C8_EmptySlugRejected ==
    (Returned("create") /\ last.title # <<>> /\ slugify(last.title) = <<>>) =>
        /\ last.ret # "path"
        /\ files = last.pre_files

\* C9: slugify is idempotent: slugify(slugify(x)) = slugify(x) for every title x.
C9_Idempotent == sl_phase = 2 => sl_again = sl_slug

C9_Witness ==
    /\ sl_phase = 2
    /\ sl_slug # <<>>
    /\ sl_slug # sl_title
    /\ sl_again = sl_slug

\* the four steps of the slug derivation, each written out on its own
C10_Letters == Range(UpperSeq) \cup Range(LowerSeq)

C10_Lower(s) ==
    [i \in 1..Len(s) |->
        IF \E k \in 1..Len(UpperSeq) : UpperSeq[k] = s[i]
        THEN LowerSeq[CHOOSE k \in 1..Len(UpperSeq) : UpperSeq[k] = s[i]]
        ELSE s[i]]

RECURSIVE C10_Keep(_, _)
C10_Keep(s, allowed) ==
    IF s = <<>> THEN <<>>
    ELSE (IF Head(s) \in allowed THEN <<Head(s)>> ELSE <<>>) \o C10_Keep(Tail(s), allowed)

\* the first n characters of s with every maximal run of runchars made one dash
RECURSIVE C10_Collapse(_, _, _)
C10_Collapse(s, n, runchars) ==
    IF n = 0 THEN <<>>
    ELSE IF s[n] \notin runchars THEN Append(C10_Collapse(s, n - 1, runchars), s[n])
    ELSE IF n > 1 /\ s[n - 1] \in runchars THEN C10_Collapse(s, n - 1, runchars)
    ELSE Append(C10_Collapse(s, n - 1, runchars), "-")

C10_Trim(s) ==
    LET keep == {i \in 1..Len(s) : s[i] # "-"}
    IN  IF keep = {} THEN <<>>
        ELSE SubSeq(s, Min(keep), CHOOSE k \in keep : \A k2 \in keep : k2 <= k)

C10_Steps(title, kept) ==
    LET removed == C10_Keep(C10_Lower(title), kept)
    IN  C10_Trim(C10_Collapse(removed, Len(removed), {"-", " ", TAB, NL}))

\* C10 as stated: slugify(title) is the result of lower-casing, removing every
\* character that is not a letter, a digit, an underscore or whitespace, making every
\* maximal run of whitespace and dashes one dash, and trimming the dashes at both ends.
C10_FourSteps ==
    sl_phase >= 1 =>
        sl_slug = C10_Steps(sl_title, C10_Letters \cup Digits \cup {"_", " ", TAB, NL})

\* C10, amended: the second step keeps the dash as well, removing every character
\* that is not a letter, a digit, an underscore, whitespace or a dash; so that
\* slugify("My First Post!") = "my-first-post".
C10_FourStepsKeepDash ==
    sl_phase >= 1 =>
        /\ sl_slug = C10_Steps(sl_title, C10_Letters \cup Digits \cup {"_", " ", TAB, NL, "-"})
        /\ sl_title = MyFirstPost => sl_slug = <<"m", "y", "-", "f", "i", "r", "s", "t", "-", "p", "o", "s", "t">>

C10_Witness ==
    /\ sl_phase >= 1
    /\ sl_title = MyFirstPost
    /\ sl_slug = <<"m", "y", "-", "f", "i", "r", "s", "t", "-", "p", "o", "s", "t">>

\* C11: the slug slugify returns has no upper-case letter, no whitespace and nothing
\* but letters, digits, underscores and dashes; it has no two dashes in a row and
\* neither starts nor ends with a dash.
C11_SlugShape ==
    sl_phase >= 1 =>
        /\ \A i \in 1..Len(sl_slug) : sl_slug[i] \in Range(LowerSeq) \cup Digits \cup {"_", "-"}
        /\ \A i \in 1..(Len(sl_slug) - 1) : ~ (sl_slug[i] = "-" /\ sl_slug[i + 1] = "-")
        /\ sl_slug # <<>> => (sl_slug[1] # "-" /\ sl_slug[Len(sl_slug)] # "-")

C11_Witness ==
    /\ sl_phase >= 1
    /\ sl_title = <<"-", "B", " ", "a">>
    /\ sl_slug = <<"b", "-", "a">>

\* the names of a listing that are folders, start with "_" and are not reserved
C12_CollectionFolders(entries) ==
    {e.name : e \in {x \in entries : x.is_dir}} \cap
        {n \in EntryNames : n[1] = "_" /\ n \notin {<<"_", "s", "i", "t", "e">>, <<"_", "s", "a", "s", "s">>,
                                <<"_", "l", "a", "y", "o", "u", "t", "s">>, <<"_", "i", "n", "c", "l", "u", "d", "e", "s">>,
                                <<"_", "d", "a", "t", "a">>}}

\* C12: list_collections returns exactly posts, drafts and pages together with the
\* name, less its leading "_", of every folder of the root that starts with "_" and
\* is not _site, _sass, _layouts, _includes or _data; nothing is returned twice, and
\* plain files and folders without a leading "_" add nothing.
C12_Collections ==
    gc.called =>
        /\ Range(gc.ret) = {<<"p", "o", "s", "t", "s">>, <<"d", "r", "a", "f", "t", "s">>, <<"p", "a", "g", "e", "s">>}
                \cup {SubSeq(n, 2, Len(n)) : n \in C12_CollectionFolders(gc.entries)}
        /\ \A i, j \in 1..Len(gc.ret) : gc.ret[i] = gc.ret[j] => i = j

C12_Witness ==
    /\ gc.called
    /\ gc.entries = {[name |-> <<"_", "r", "e", "c", "i", "p", "e", "s">>, is_dir |-> TRUE],
                     [name |-> <<"_", "s", "i", "t", "e">>, is_dir |-> TRUE],
                     [name |-> <<"_", "n", "o", "t", "e", "s">>, is_dir |-> FALSE]}
    /\ gc.ret = <<<<"d", "r", "a", "f", "t", "s">>, <<"p", "a", "g", "e", "s">>, <<"p", "o", "s", "t", "s">>,
                  <<"r", "e", "c", "i", "p", "e", "s">>>>

\* C13: publish and unpublish write the destination before they delete the source:
\* between the two steps both files exist, the source with the item's content, and
\* once the handler has returned the destination exists; the content is never in
\* neither folder.
C13_WriteBeforeDelete ==
    /\ pc \in {"publish_unlink", "unpublish_unlink"} =>
            /\ cur.src \in DOMAIN files
            /\ files[cur.src] = cur.content
            /\ cur.dst \in DOMAIN files
            /\ files[cur.dst] \in
                    {cur.content,
                     FenceNL \o DateKey \o <<" ">> \o cur.date \o <<NL>>
                        \o From(cur.content, Len(FenceNL) + 1),
                     PublishContent(cur.content, cur.date)}
            /\ pc = "unpublish_unlink" => files[cur.dst] = cur.content
    /\ (Returned("publish") \/ Returned("unpublish")) => last.path \in DOMAIN files

C13_Witness ==
    /\ pc = "publish_unlink"
    /\ cur.src \in DOMAIN files
    /\ cur.dst \in DOMAIN files
    /\ files[cur.dst] # files[cur.src]

\* the folders among cwd and its ancestors that hold the marker file
C14_Marked == {k \in 0..Len(fr.cwd) : SubSeq(fr.cwd, 1, k) \in fr.markers}

\* C14: the root resolution ends, and it returns the nearest of the current folder and
\* its ancestors that holds the marker file, or the current folder itself when none
\* up to the filesystem root holds it.
C14_FindRoot ==
    /\ <>(fr.pc = "done")
    /\ [](fr.pc = "done" =>
            IF C14_Marked = {} THEN fr.ret = fr.cwd
            ELSE /\ Len(fr.ret) \in C14_Marked
                 /\ fr.ret = SubSeq(fr.cwd, 1, Len(fr.ret))
                 /\ \A k \in C14_Marked : k <= Len(fr.ret))

C14_Witness ==
    /\ fr.pc = "done"
    /\ fr.cwd = <<"a", "b">>
    /\ fr.markers = {<<>>, <<"a">>}
    /\ fr.ret = <<"a">>

\* the content items of a tree: the files of _drafts and _posts
C15_Items(fs) == {q \in DOMAIN fs : q[1] \in {"_drafts", "_posts"}}

\* C15: publish and unpublish leave every other item as it was: each file that was in
\* the destination folder before is still there with the same content, and _drafts
\* and _posts together hold as many items after as before.
C15_OthersUntouched ==
    (Returned("publish") \/ Returned("unpublish")) =>
        /\ \A q \in DOMAIN last.pre_files :
                q[1] = last.path[1] => (q \in DOMAIN files /\ files[q] = last.pre_files[q])
        /\ Cardinality(C15_Items(files)) = Cardinality(C15_Items(last.pre_files))

\* the titles the form accepts: the typed titles, trimmed, that are not empty
C16_Titles == {StripSpace(t) : t \in RawTitles} \ {<<>>}

\* the text create writes for a draft titled T
C16_DraftText(T) == Fence \o <<NL>> \o TitleKey \o <<" ">> \o T \o <<NL>> \o Fence \o <<NL, NL>>

\* C16: publishing, unedited, the draft that create wrote for an accepted title T
\* writes the post _posts/{today}-{s}.md, {s}.md being the draft's name: the title
\* read back from the draft has the slug of T.
C16_CreateThenPublish ==
    \A T \in C16_Titles :
        (/\ Returned("publish")
         /\ last.name = slugify(T) \o MD
         /\ last.content = C16_DraftText(T)) =>
            /\ last.path = <<"_posts", last.date \o <<"-">>
                                \o SubSeq(last.name, 1, Len(last.name) - Len(MD)) \o MD>>
            /\ last.path[2] = last.date \o <<"-">> \o slugify(T) \o MD
            /\ last.path \in DOMAIN files

\* the draft of the title 'Hi', typed with its quotes, created and then published
C16_Witness ==
    /\ Returned("publish")
    /\ nops = 2
    /\ last.name = <<"h", "i", ".", "m", "d">>
    /\ last.content = C16_DraftText(<<"'", "H", "i", "'">>)
    /\ <<"_drafts", last.name>> \notin DOMAIN last.pre_files
        \/ last.pre_files[<<"_drafts", last.name>>] = last.content
    /\ last.path = <<"_posts", Date1 \o <<"-", "h", "i", ".", "m", "d">>>>

====
